---- MODULE Spec2Model ----
(***************************************************************************)
(* One relay session of src/app.py: the flask-sock handler                 *)
(* live_transcription(ws) and the Deepgram listening thread it starts.     *)
(*                                                                         *)
(* Two threads act on the session:                                         *)
(*   - the handler thread (pc): connect, start the listener, the main      *)
(*     receive loop, the except block and the finally cleanup;             *)
(*   - the listening thread (lpc): start_listening() calling the           *)
(*     registered callbacks on_open / on_message / on_error / on_close.    *)
(* The client and the upstream service are the environment: the client     *)
(* chooses the frames it sends and may disconnect, the upstream chooses    *)
(* the events it delivers and may drop.                                    *)
(***************************************************************************)
EXTENDS Integers, Sequences, FiniteSets, TLC

\* ------------------------------------------------------------------ bounds
\* Inputs of one session: the frames the handler reads from the client plus
\* the MESSAGE and ERROR events the upstream delivers.
MaxInputs == 3
\* Socket.IO variant: background tasks started; audio_stream events plus
\* Transcript events handled.
MaxTasks == 2
MaxSioEvents == 3

\* ------------------------------------------------------------------ values
\* What ws.receive(timeout=1) hands back: None, a bytes object or a str.
NoData == [t |-> "none", v |-> ""]
Bytes(b) == [t |-> "bytes", v |-> b]
Str(s) == [t |-> "str", v |-> s]

KeepAliveText == "{\"type\":\"KeepAlive\"}"
FinalizeText == "{\"type\":\"Finalize\"}"
CloseStreamText == "{\"type\":\"CloseStream\"}"
\* A well-formed message of a type the handler does not know.
UnknownTypeText == "{\"type\":\"Transcribe\"}"

\* Binary payloads (the empty chunk included) and text frames a client sends.
BinaryFrames == {Bytes(""), Bytes("a")}
TextFrames == {Str(KeepAliveText), Str(FinalizeText), Str(CloseStreamText),
               Str(UnknownTypeText), Str("{}"), Str("[]"), Str("not json")}
ClientFrames == BinaryFrames \cup TextFrames

\* What the connecting client presented as a session token.
Tokens == {"valid", "expired", "absent"}

\* Messages the upstream hands to on_message: a transcript result (with its
\* text, possibly empty), a result without alternatives, a metadata message,
\* and any other event (neither channel nor request_id).
UpstreamMessages ==
    {[kind |-> "Results", text |-> "hi"], [kind |-> "Results", text |-> ""],
     [kind |-> "NoAlternatives", text |-> ""], [kind |-> "Metadata", text |-> ""],
     [kind |-> "Other", text |-> ""]}

\* The clients of the Socket.IO server, the `action` values of a
\* toggle_transcription event, the transcripts of the upstream's events,
\* the payloads of an audio_stream event.
SioClients == {"c1", "c2"}
ToggleActions == {"start", "stop", "none"}
Transcripts == {"hi", ""}
SioAudio == {"a"}

VARIABLES
    token,        \* what the client presented at the handshake
    pc,           \* the handler thread's position in live_transcription
    lpc,          \* the listening thread's position
    stop_event,   \* threading.Event: is_set()
    dg_context,   \* deepgram_context is not None
    dg_connection,\* deepgram_connection is not None
    data,         \* the handler's local `data`
    sendRaised,   \* send_media / send_control raised in this iteration
    wsOpen,       \* the client connection is connected
    opened,       \* the OPEN event was delivered
    closeSeen,    \* on_close ran
    nRecv,        \* frames ws.receive returned so far
    recvd,        \* the bytes frames among them, in order
    upSent,       \* send_media / send_control calls, in order
    clientSent,   \* ws.send calls, in order
    nEvents,      \* on_message and on_error calls so far
    connects,     \* client.listen.v1.connect calls
    finishCalls,  \* deepgram_connection.finish() calls
    exitCalls,    \* deepgram_context.__exit__ calls
    finishRaised, \* finish() raised
    wsCloses,     \* closes of the client connection
    closeCode     \* the status the client connection was closed with (0: open)

\* The module-level state of the Socket.IO variant (src/app_socketio.py).
VARIABLES
    transcribing,        \* the global `transcribing`
    transcription_event, \* the global threading.Event: is_set()
    stopsPending,        \* 'stop' handlers between their lines 80 and 81
    tasks,               \* the position of each start_transcription_loop task
    sioHandlers,         \* Transcript handlers the loop registered so far
    sioFinishCalls,      \* finish() calls on the one global dg_connection
    sioSent,             \* send calls on the global dg_connection, in order
    nTranscripts,        \* Transcript events delivered so far
    sioEmitted           \* transcription_update events emitted, in order

siov == <<transcribing, transcription_event, stopsPending, tasks, sioHandlers,
          sioFinishCalls, sioSent, nTranscripts, sioEmitted>>

relayv == <<token, pc, lpc, stop_event, dg_context, dg_connection, data,
            sendRaised, wsOpen,
            opened, closeSeen, nRecv, recvd, upSent, clientSent, nEvents,
            connects, finishCalls, exitCalls, finishRaised, wsCloses, closeCode>>

vars == <<relayv, siov>>

hist == <<nRecv, recvd, upSent, clientSent>>
envv == <<wsOpen>>
cleanupv == <<finishCalls, exitCalls, finishRaised, wsCloses, closeCode>>
handlerv == <<pc, dg_context, dg_connection, data, sendRaised, connects>>
listenerv == <<lpc, opened, closeSeen, nEvents>>

Init ==
    /\ token \in Tokens
    /\ pc = "start"
    /\ lpc = "idle"
    /\ stop_event = FALSE
    /\ dg_context = FALSE
    /\ dg_connection = FALSE
    /\ data = NoData
    /\ sendRaised = FALSE
    /\ wsOpen = TRUE
    /\ opened = FALSE
    /\ closeSeen = FALSE
    /\ nRecv = 0
    /\ recvd = <<>>
    /\ upSent = <<>>
    /\ clientSent = <<>>
    /\ nEvents = 0
    /\ connects = 0
    /\ finishCalls = 0
    /\ exitCalls = 0
    /\ finishRaised = FALSE
    /\ wsCloses = 0
    /\ closeCode = 0
    /\ transcribing = FALSE
    /\ transcription_event = FALSE
    /\ stopsPending = 0
    /\ tasks = <<>>
    /\ sioHandlers = 0
    /\ sioFinishCalls = 0
    /\ sioSent = <<>>
    /\ nTranscripts = 0
    /\ sioEmitted = <<>>

\* ----------------------------------------------------------------- helpers
\* `if not data:` in place of `if data is None:`: an empty chunk counts as
\* no data.
IsNoneFalsy(d) == d.t = "none" \/ d.v = ""
IsNone(d) == d.t = "none"
IsBytes(d) == d.t = "bytes"
IsStr(d) == d.t = "str"

\* json.loads(data) followed by message.get('type'): err is the exception
\* raised ("" when none), type the value of message.get('type').
JsonLoads(s) ==
    CASE s = KeepAliveText -> [err |-> "", type |-> "KeepAlive"]
      [] s = FinalizeText -> [err |-> "", type |-> "Finalize"]
      [] s = CloseStreamText -> [err |-> "", type |-> "CloseStream"]
      [] s = UnknownTypeText -> [err |-> "", type |-> "Transcribe"]
      [] s = "{}" -> [err |-> "", type |-> "None"]
      [] s = "[]" -> [err |-> "AttributeError", type |-> "None"]
      [] OTHER -> [err |-> "JSONDecodeError", type |-> "None"]

\* ListenV1MediaMessage(data): the bytes themselves.
ListenV1MediaMessage(d) == d.v
\* ListenV1ControlMessage(type=...)
ListenV1ControlMessage(type) == type

\* A call of deepgram_connection.send_media / send_control and what it is
\* given.
UpCall(kind, v) == [kind |-> kind, v |-> v]

\* A call of ws.send(json.dumps(...)): the envelope's type, the upstream
\* event it answers (its number in delivery order; 0: none) and its
\* transcript or error code.
WsCall(type, msg, text) == [type |-> type, msg |-> msg, text |-> text]

\* format_error_response(code, message) as sent to the client.
format_error_response(code, msg) == WsCall("Error", msg, code)

\* A send that overtakes the frames already handed to the connection.
WsSendOvertaking(q, f) == <<f>> \o q
\* ws.send appends to what the client connection was asked to carry.
WsSend(q, f) == Append(q, f)

\* ------------------------------------------------------- handler thread
\* client.listen.v1.connect(...) and deepgram_context.__enter__(): the handler
\* never looks at the token the client presented.
Connect ==
    /\ pc = "start"
    /\ connects' = connects + 1
    /\ \/ /\ dg_context' = TRUE
          /\ dg_connection' = TRUE
          /\ pc' = "setup"
       \/ /\ dg_context' \in {FALSE, TRUE}
          /\ dg_connection' = FALSE
          /\ pc' = "except"
    /\ UNCHANGED <<siov, token, lpc, stop_event, data, sendRaised, wsOpen, opened,
                   closeSeen, hist, nEvents, cleanupv>>

\* Register the callbacks and start the daemon listening thread.
StartListener ==
    /\ pc = "setup"
    /\ lpc' = "listening"
    /\ pc' = "loop"
    /\ UNCHANGED <<siov, token, stop_event, dg_context, dg_connection, data, sendRaised, envv,
                   opened, closeSeen, hist, nEvents, connects, cleanupv>>

\* while not stop_event.is_set():
LoopCheck ==
    /\ pc = "loop"
    /\ pc' = IF stop_event THEN "finally" ELSE "recv"
    /\ sendRaised' = FALSE
    /\ UNCHANGED <<siov, token, lpc, stop_event, dg_context, dg_connection, data,
                   envv, opened, closeSeen, hist, nEvents, connects,
                   cleanupv>>

\* data = ws.receive(timeout=1) and the `if data is None` branch.
Received(d) ==
    /\ data' = d
    /\ nRecv' = IF d = NoData THEN nRecv ELSE nRecv + 1
    /\ recvd' = IF d \in BinaryFrames THEN Append(recvd, d.v) ELSE recvd
    /\ pc' = IF IsNone(d)
               THEN (IF stop_event THEN "finally" ELSE "loop")
               ELSE "dispatch"

\* A receive that reports a closed connection like a timeout, with None.
ReceiveNoneOnClosed ==
    /\ pc = "recv"
    /\ \/ /\ wsOpen
          /\ \E d \in ClientFrames :
                /\ nRecv + nEvents < MaxInputs
                /\ Received(d)
       \/ Received(NoData)
    /\ UNCHANGED <<siov, token, sendRaised, lpc, stop_event, dg_context, dg_connection, envv,
                   opened, closeSeen, upSent, clientSent, nEvents,
                   connects, cleanupv>>

Receive ==
    /\ pc = "recv"
    /\ \/ /\ wsOpen
          /\ \E d \in ClientFrames :
                /\ nRecv + nEvents < MaxInputs
                /\ Received(d)
       \/ /\ wsOpen
          /\ Received(NoData)
       \/ /\ ~wsOpen
          /\ pc' = "except"
          /\ UNCHANGED <<data, nRecv, recvd>>
    /\ UNCHANGED <<siov, token, sendRaised, lpc, stop_event, dg_context, dg_connection, envv,
                   opened, closeSeen, upSent, clientSent, nEvents,
                   connects, cleanupv>>

\* (`data` is not read again after an iteration: it is dropped at its end.)
\* A failed send_media only printed, like a failed send_control: the loop
\* goes on.
ForwardMediaSwallows ==
    /\ upSent' = Append(upSent, UpCall("media", ListenV1MediaMessage(data)))
    /\ sendRaised' \in BOOLEAN
    /\ pc' = "loop"

\* The body of the loop for a bytes frame: send_media, break when it raises.
ForwardMedia ==
    /\ upSent' = Append(upSent, UpCall("media", ListenV1MediaMessage(data)))
    /\ sendRaised' \in BOOLEAN
    /\ pc' = IF sendRaised' THEN "finally" ELSE "loop"

\* Finalize handled like CloseStream: the loop is left.
HandleControlFinalizeBreaks ==
    LET message == JsonLoads(data.v) IN
    IF message.err = "" /\ message.type = "KeepAlive" THEN
        /\ upSent' = Append(upSent, UpCall("control", ListenV1ControlMessage("KeepAlive")))
        /\ sendRaised' \in BOOLEAN
        /\ pc' = "loop"
    ELSE IF message.err = "" /\ message.type \in {"CloseStream", "Finalize"} THEN
        /\ upSent' = upSent
        /\ sendRaised' = FALSE
        /\ pc' = "finally"
    ELSE
        /\ upSent' = upSent
        /\ sendRaised' = FALSE
        /\ pc' = "loop"

\* CloseStream not recognised: it is skipped like an unknown type.
HandleControlCloseIgnored ==
    LET message == JsonLoads(data.v) IN
    IF message.err = "" /\ message.type \in {"KeepAlive", "Finalize"} THEN
        /\ upSent' = Append(upSent, UpCall("control", ListenV1ControlMessage(message.type)))
        /\ sendRaised' \in BOOLEAN
        /\ pc' = "loop"
    ELSE
        /\ upSent' = upSent
        /\ sendRaised' = FALSE
        /\ pc' = "loop"

\* A text frame that cannot be processed is not caught inside the loop: it
\* reaches the handler's outer except.
HandleControlJsonFatal ==
    LET message == JsonLoads(data.v) IN
    IF message.err # "" THEN
        /\ upSent' = upSent
        /\ sendRaised' = FALSE
        /\ pc' = "except"
    ELSE IF message.type \in {"KeepAlive", "Finalize"} THEN
        /\ upSent' = Append(upSent, UpCall("control", ListenV1ControlMessage(message.type)))
        /\ sendRaised' \in BOOLEAN
        /\ pc' = "loop"
    ELSE IF message.type = "CloseStream" THEN
        /\ upSent' = upSent
        /\ sendRaised' = FALSE
        /\ pc' = "finally"
    ELSE
        /\ upSent' = upSent
        /\ sendRaised' = FALSE
        /\ pc' = "loop"

\* The body of the loop for a str frame: the control messages. Every
\* exception (JSONDecodeError, AttributeError, a failed send_control) is
\* caught inside the loop.
HandleControl ==
    LET message == JsonLoads(data.v) IN
    IF message.err # "" THEN
        /\ upSent' = upSent
        /\ sendRaised' = FALSE
        /\ pc' = "loop"
    ELSE IF message.type = "KeepAlive" THEN
        /\ upSent' = Append(upSent, UpCall("control", ListenV1ControlMessage("KeepAlive")))
        /\ sendRaised' \in BOOLEAN
        /\ pc' = "loop"
    ELSE IF message.type = "CloseStream" THEN
        /\ upSent' = upSent
        /\ sendRaised' = FALSE
        /\ pc' = "finally"
    ELSE IF message.type = "Finalize" THEN
        /\ upSent' = Append(upSent, UpCall("control", ListenV1ControlMessage("Finalize")))
        /\ sendRaised' \in BOOLEAN
        /\ pc' = "loop"
    ELSE
        /\ upSent' = upSent
        /\ sendRaised' = FALSE
        /\ pc' = "loop"

Dispatch ==
    /\ pc = "dispatch"
    /\ IF IsBytes(data) THEN ForwardMedia
       ELSE IF IsStr(data) THEN HandleControl
       ELSE upSent' = upSent /\ sendRaised' = FALSE /\ pc' = "loop"
    /\ data' = NoData
    /\ UNCHANGED <<siov, token, lpc, stop_event, dg_context, dg_connection, envv,
                   opened, closeSeen, nRecv, recvd, clientSent, nEvents,
                   connects, cleanupv>>

\* except Exception that only prints.
ExceptSilent ==
    /\ pc = "except"
    /\ pc' = "finally"
    /\ UNCHANGED <<siov, token, lpc, stop_event, dg_context, dg_connection, data, sendRaised,
                   envv, opened, closeSeen, hist, nEvents, connects, cleanupv>>

\* except Exception: try to tell the client, swallowing a failed send.
Except ==
    /\ pc = "except"
    /\ clientSent' = WsSend(clientSent, format_error_response("CONNECTION_FAILED", 0))
    /\ pc' = "finally"
    /\ UNCHANGED <<siov, token, lpc, stop_event, dg_context, dg_connection, data, sendRaised,
                   envv, opened, closeSeen, nRecv, recvd, upSent, nEvents,
                   connects, cleanupv>>

\* finally: stop_event.set()
Finally ==
    /\ pc = "finally"
    /\ stop_event' = TRUE
    /\ pc' = "finish"
    /\ sendRaised' = FALSE
    /\ UNCHANGED <<siov, token, lpc, dg_context, dg_connection, data, envv, opened,
                   closeSeen, hist, nEvents, connects, cleanupv>>

\* finish() and __exit__ under one try: when finish() raises, the context
\* manager is not exited.
FinishOneTry ==
    /\ pc = "finish"
    /\ IF dg_connection
         THEN /\ finishCalls' = finishCalls + 1
              /\ finishRaised' \in BOOLEAN
         ELSE UNCHANGED <<finishCalls, finishRaised>>
    /\ pc' = IF finishRaised' THEN "done" ELSE "exit"
    /\ UNCHANGED <<siov, token, lpc, stop_event, dg_context, dg_connection, data, sendRaised,
                   wsOpen, opened, closeSeen, hist, nEvents, connects,
                   exitCalls, wsCloses, closeCode>>

\* if deepgram_connection: try: deepgram_connection.finish() except: print
Finish ==
    /\ pc = "finish"
    /\ IF dg_connection
         THEN /\ finishCalls' = finishCalls + 1
              /\ finishRaised' \in BOOLEAN
         ELSE UNCHANGED <<finishCalls, finishRaised>>
    /\ pc' = "exit"
    /\ UNCHANGED <<siov, token, lpc, stop_event, dg_context, dg_connection, data, sendRaised,
                   wsOpen, opened, closeSeen, hist, nEvents, connects,
                   exitCalls, wsCloses, closeCode>>

\* if deepgram_context: try: deepgram_context.__exit__(None, None, None)
Exit ==
    /\ pc = "exit"
    /\ IF dg_context
         THEN /\ exitCalls' = exitCalls + 1
         ELSE UNCHANGED exitCalls
    /\ pc' = "done"
    /\ UNCHANGED <<siov, token, lpc, stop_event, dg_context, dg_connection, data, sendRaised,
                   wsOpen, opened, closeSeen, hist, nEvents, connects,
                   finishCalls, finishRaised, wsCloses, closeCode>>

\* The handler returns; the @sock.route wrapper closes the client connection.
\* The handler never calls ws.close itself and hands the wrapper no status:
\* the close is the normal closure (1000), whatever ended the session.
Return ==
    /\ pc = "done"
    /\ wsCloses' = wsCloses + 1
    /\ closeCode' = 1000
    /\ wsOpen' = FALSE
    /\ pc' = "returned"
    /\ UNCHANGED <<siov, token, lpc, stop_event, dg_context, dg_connection, data, sendRaised,
                   opened, closeSeen, hist, nEvents, connects,
                   finishCalls, exitCalls, finishRaised>>

Handler ==
    \/ Connect
    \/ StartListener
    \/ LoopCheck
    \/ Receive
    \/ Dispatch
    \/ Except
    \/ Finally
    \/ Finish
    \/ Exit
    \/ Return

\* ----------------------------------------------------- listening thread
\* The callbacks run on the listening thread, one at a time, from inside
\* deepgram_connection.start_listening(). The handler registers them
\* independently of one another and keeps no state about which ran: the
\* order of the OPEN, MESSAGE and ERROR events is the upstream's.

\* on_open: tell the client we are ready; a failed send is only printed.
on_open ==
    /\ lpc = "listening"
    /\ ~opened
    /\ opened' = TRUE
    /\ clientSent' = WsSend(clientSent, WsCall("Ready", 0, ""))
    /\ UNCHANGED <<siov, token, handlerv, lpc, stop_event, envv, closeSeen, nRecv, recvd,
                   upSent, nEvents, cleanupv>>

\* The try block of on_message raises: a result without alternatives
\* (IndexError), or a ws.send on a closed client connection.
TryRaises(m) ==
    \/ m.kind = "NoAlternatives"
    \/ /\ ~wsOpen
       /\ \/ m.kind = "Results" /\ Len(m.text) > 0
          \/ m.kind = "Metadata"

\* The ws.send calls of on_message's try block for the n-th message m.
TrySends(m, n) ==
    IF m.kind = "Results" /\ Len(m.text) > 0
      THEN <<WsCall("Results", n, m.text)>>
    ELSE IF m.kind = "Metadata"
      THEN <<WsCall("Metadata", n, "")>>
    ELSE <<>>

\* on_message(result), the try block: reshape and forward. When the block
\* raises (a result without alternatives, a ws.send on a closed client
\* connection) the callback is in its except block, before the send there.
on_message(m) ==
    /\ lpc = "listening"
    /\ nRecv + nEvents < MaxInputs
    /\ nEvents' = nEvents + 1
    /\ clientSent' = clientSent \o TrySends(m, nEvents + 1)
    /\ lpc' = IF TryRaises(m) THEN "excepting" ELSE "listening"
    /\ UNCHANGED <<siov, token, handlerv, stop_event, envv, opened, closeSeen, nRecv, recvd,
                   upSent, cleanupv>>

\* on_message's except block with a failed send of the Error envelope
\* swallowed, as on_error does.
on_message_except_swallows ==
    /\ lpc = "excepting"
    /\ clientSent' =
          WsSend(clientSent, format_error_response("TRANSCRIPTION_FAILED", nEvents))
    /\ lpc' = "listening"
    /\ UNCHANGED <<siov, token, handlerv, stop_event, envv, opened, closeSeen, nRecv, recvd,
                   upSent, nEvents, cleanupv>>

\* on_message, the except block: a second, separate ws.send, of the Error
\* envelope for the message being handled; when that send raises too the
\* exception leaves the callback and start_listening.
on_message_except ==
    /\ lpc = "excepting"
    /\ clientSent' =
          WsSend(clientSent, format_error_response("TRANSCRIPTION_FAILED", nEvents))
    /\ lpc' = IF wsOpen THEN "listening" ELSE "raising"
    /\ UNCHANGED <<siov, token, handlerv, stop_event, envv, opened, closeSeen, nRecv, recvd,
                   upSent, nEvents, cleanupv>>

\* on_error: send an Error envelope; a failed send is swallowed.
on_error ==
    /\ lpc = "listening"
    /\ nRecv + nEvents < MaxInputs
    /\ nEvents' = nEvents + 1
    /\ clientSent' = WsSend(clientSent, format_error_response("CONNECTION_FAILED", 0))
    /\ UNCHANGED <<siov, token, handlerv, lpc, stop_event, envv, opened, closeSeen,
                   nRecv, recvd, upSent, cleanupv>>

\* on_close that also finishes the connection itself.
on_close_finishes ==
    /\ ~closeSeen
    /\ closeSeen' = TRUE
    /\ stop_event' = TRUE
    /\ finishCalls' = finishCalls + 1
    /\ UNCHANGED <<siov, token, handlerv, envv, opened, hist, nEvents, exitCalls,
                   finishRaised, wsCloses, closeCode>>

\* on_close that only prints.
on_close_silent ==
    /\ ~closeSeen
    /\ closeSeen' = TRUE
    /\ UNCHANGED <<siov, token, handlerv, stop_event, envv, opened, hist, nEvents,
                   cleanupv>>

\* on_close: stop_event.set(), nothing else.
on_close ==
    /\ ~closeSeen
    /\ closeSeen' = TRUE
    /\ stop_event' = TRUE
    /\ UNCHANGED <<siov, token, handlerv, envv, opened, hist, nEvents, cleanupv>>

\* The upstream connection is closed: the CLOSE event is delivered and
\* start_listening returns, which ends the thread.
DgClose ==
    /\ lpc = "listening"
    /\ on_close
    /\ lpc' = "exited"

\* start_listening raises on its own (a frame it cannot parse, a transport
\* error it does not handle).
ListenRaise ==
    /\ lpc = "listening"
    /\ lpc' = "raising"
    /\ UNCHANGED <<siov, token, handlerv, stop_event, envv, opened, closeSeen, hist,
                   nEvents, cleanupv>>

\* While the exception unwinds start_listening the CLOSE event may still be
\* delivered.
DgCloseUnwinding ==
    /\ lpc = "raising"
    /\ on_close
    /\ UNCHANGED lpc

\* listen_to_deepgram's except: print, stop_event.set(); the thread ends.
ListenExcept ==
    /\ lpc = "raising"
    /\ stop_event' = TRUE
    /\ lpc' = "failed"
    /\ UNCHANGED <<siov, token, handlerv, envv, opened, closeSeen, hist, nEvents,
                   cleanupv>>

Listener ==
    \/ on_open
    \/ \E m \in UpstreamMessages : on_message(m)
    \/ on_message_except
    \/ on_error
    \/ DgClose
    \/ ListenRaise
    \/ DgCloseUnwinding
    \/ ListenExcept

\* ------------------------------------------------------------ environment
\* The client goes away: ws.send and ws.receive raise from now on.
ClientDisconnect ==
    /\ wsOpen
    /\ pc # "returned"
    /\ wsOpen' = FALSE
    /\ UNCHANGED <<siov, token, handlerv, listenerv, stop_event, hist, cleanupv>>

Next ==
    \/ Handler
    \/ Listener
    \/ ClientDisconnect

Spec == Init /\ [][Next]_vars

\* The session of a client that was let in, with its threads scheduled:
\* every call returns or raises, and ws.receive(timeout=1) returns after a
\* second at the latest.
FairInit == Init /\ token = "valid"
FairSpec ==
    FairInit /\ [][Next]_vars /\ WF_vars(Handler) /\ WF_vars(ListenExcept)

\* ------------------------------------------------- the Socket.IO variant
\* src/app_socketio.py makes one connection to the upstream when the module
\* is imported and starts it once; every event handler and every background
\* task works on that global dg_connection. Event handlers and background
\* tasks run in threads of their own.

\* @socketio.on('audio_stream'): dg_connection.send(data), whoever the
\* client is and whatever the state of the connection.
handle_audio_stream(sid, d) ==
    /\ Len(sioSent) + nTranscripts < MaxSioEvents
    /\ sioSent' = Append(sioSent,
                         [sid |-> sid, data |-> d, finished |-> sioFinishCalls > 0])
    /\ UNCHANGED <<relayv, transcribing, transcription_event, stopsPending,
                   tasks, sioHandlers, sioFinishCalls, nTranscripts, sioEmitted>>

\* transcription_event.set(): the flag is set and every task blocked in
\* wait() is notified; a notified task returns from wait() whatever the flag
\* is by the time it runs again.
EventSet(ts) == [i \in 1..Len(ts) |-> IF ts[i] = "wait" THEN "woken" ELSE ts[i]]

\* @socketio.on('toggle_transcription'), up to and including line 80: a
\* 'start' sets the flag and starts a background task; a 'stop' resets the
\* flag and has transcription_event.set() still to do.
toggle_transcription(action) ==
    /\ IF action = "start" /\ ~transcribing THEN
          /\ Len(tasks) < MaxTasks
          /\ transcribing' = TRUE
          /\ tasks' = Append(tasks, "while")
          /\ UNCHANGED stopsPending
       ELSE IF action = "stop" /\ transcribing THEN
          /\ transcribing' = FALSE
          /\ stopsPending' = stopsPending + 1
          /\ UNCHANGED tasks
       ELSE UNCHANGED <<transcribing, stopsPending, tasks>>
    /\ UNCHANGED <<relayv, transcription_event, sioHandlers, sioFinishCalls,
                   sioSent, nTranscripts, sioEmitted>>

\* Line 81 of a 'stop' handler: transcription_event.set(). Other handlers
\* and the background tasks may have run since its line 80.
toggle_transcription_set ==
    /\ stopsPending > 0
    /\ stopsPending' = stopsPending - 1
    /\ transcription_event' = TRUE
    /\ tasks' = EventSet(tasks)
    /\ UNCHANGED <<relayv, transcribing, sioHandlers, sioFinishCalls, sioSent,
                   nTranscripts, sioEmitted>>

\* start_transcription_loop, task i: the test of `while transcribing:`.
LoopHead(i) ==
    /\ tasks[i] = "while"
    /\ tasks' = [tasks EXCEPT ![i] = IF transcribing THEN "register" ELSE "ended"]
    /\ UNCHANGED <<relayv, transcribing, transcription_event, stopsPending,
                   sioHandlers, sioFinishCalls, sioSent, nTranscripts, sioEmitted>>

\* dg_connection.on(Transcript, on_message): one more handler on the global
\* connection, whatever `transcribing` has become since the test.
RegisterHandler(i) ==
    /\ tasks[i] = "register"
    /\ sioHandlers' = sioHandlers + 1
    /\ tasks' = [tasks EXCEPT ![i] = "enter"]
    /\ UNCHANGED <<relayv, transcribing, transcription_event, stopsPending,
                   sioFinishCalls, sioSent, nTranscripts, sioEmitted>>

\* The call of transcription_event.wait(): it returns at once when the
\* flag is set, otherwise the task blocks inside it.
EnterWait(i) ==
    /\ tasks[i] = "enter"
    /\ tasks' = [tasks EXCEPT ![i] = IF transcription_event THEN "clear" ELSE "wait"]
    /\ UNCHANGED <<relayv, transcribing, transcription_event, stopsPending,
                   sioHandlers, sioFinishCalls, sioSent, nTranscripts, sioEmitted>>

\* transcription_event.wait() returns in a task that set() notified while
\* it was blocked, also when the flag has been cleared since.
WaitReturns(i) ==
    /\ tasks[i] = "woken"
    /\ tasks' = [tasks EXCEPT ![i] = "clear"]
    /\ UNCHANGED <<relayv, transcribing, transcription_event, stopsPending,
                   sioHandlers, sioFinishCalls, sioSent, nTranscripts, sioEmitted>>

\* transcription_event.clear()
ClearEvent(i) ==
    /\ tasks[i] = "clear"
    /\ transcription_event' = FALSE
    /\ tasks' = [tasks EXCEPT ![i] = "finish"]
    /\ UNCHANGED <<relayv, transcribing, stopsPending, sioHandlers,
                   sioFinishCalls, sioSent, nTranscripts, sioEmitted>>

\* dg_connection.finish(); when it raises the task's except logs and the
\* task ends, otherwise the loop goes back to its head.
FinishConnection(i) ==
    /\ tasks[i] = "finish"
    /\ sioFinishCalls' = sioFinishCalls + 1
    /\ \E next \in {"while", "ended"} : tasks' = [tasks EXCEPT ![i] = next]
    /\ UNCHANGED <<relayv, transcribing, transcription_event, stopsPending,
                   sioHandlers, sioSent, nTranscripts, sioEmitted>>

start_transcription_loop(i) ==
    \/ LoopHead(i)
    \/ RegisterHandler(i)
    \/ EnterWait(i)
    \/ WaitReturns(i)
    \/ ClearEvent(i)
    \/ FinishConnection(i)

\* The inner on_message of start_transcription_loop, called with the n-th
\* Transcript event: the socketio.emit calls it makes, one
\* transcription_update when the transcript is not empty.
sio_on_message(transcript, n) ==
    IF Len(transcript) > 0
      THEN <<[event |-> "transcription_update", transcription |-> transcript, msg |-> n]>>
      ELSE <<>>

\* What k registered handlers emit, called one after the other.
RECURSIVE EmitsOf(_, _, _)
EmitsOf(k, transcript, n) ==
    IF k = 0 THEN <<>>
    ELSE sio_on_message(transcript, n) \o EmitsOf(k - 1, transcript, n)

\* The upstream delivers a Transcript event on the connection while it is
\* not finished: every handler the loop registered is called with it.
SioTranscript(transcript) ==
    /\ sioFinishCalls = 0
    /\ Len(sioSent) + nTranscripts < MaxSioEvents
    /\ nTranscripts' = nTranscripts + 1
    /\ sioEmitted' = sioEmitted \o EmitsOf(sioHandlers, transcript, nTranscripts + 1)
    /\ UNCHANGED <<relayv, transcribing, transcription_event, stopsPending,
                   tasks, sioHandlers, sioFinishCalls, sioSent>>

\* The on_message of the test (src/tests/test_deepgram_sdk.py): does it set
\* transcript_received_event for this transcript (`if sentence:`).
test_on_message(sentence) == sentence # ""

SioNext ==
    \/ \E sid \in SioClients, d \in SioAudio : handle_audio_stream(sid, d)
    \/ \E action \in ToggleActions : toggle_transcription(action)
    \/ toggle_transcription_set
    \/ \E i \in 1..Len(tasks) : start_transcription_loop(i)
    \/ \E transcript \in Transcripts : SioTranscript(transcript)

\* The Socket.IO server on its own: no relay session is running.
SioSpec == FairInit /\ [][SioNext]_vars

SioTypeOK ==
    /\ transcribing \in BOOLEAN
    /\ transcription_event \in BOOLEAN
    /\ stopsPending \in 0..MaxTasks
    /\ Len(tasks) <= MaxTasks
    /\ \A i \in 1..Len(tasks) :
          tasks[i] \in {"while", "register", "enter", "wait", "woken", "clear", "finish", "ended"}
    /\ nTranscripts \in 0..MaxSioEvents
    /\ Len(sioSent) + nTranscripts <= MaxSioEvents
    /\ \A i \in 1..Len(sioEmitted) : sioEmitted[i].msg \in 1..nTranscripts

TypeOK ==
    /\ token \in Tokens
    /\ pc \in {"start", "setup", "loop", "recv", "dispatch", "except",
               "finally", "finish", "exit", "done", "returned"}
    /\ lpc \in {"idle", "listening", "excepting", "raising", "exited", "failed"}
    /\ stop_event \in BOOLEAN
    /\ data \in ClientFrames \cup {NoData}
    /\ nRecv \in 0..MaxInputs
    /\ nEvents \in 0..MaxInputs
    /\ nRecv + nEvents <= MaxInputs
    /\ Len(recvd) <= nRecv
    /\ closeCode \in {0, 1000}
    /\ sendRaised \in BOOLEAN

\* ------------------------------------------------------------- properties
Closed == pc = "returned"
MediaSent == SelectSeq(upSent, LAMBDA c : c.kind = "media")
Payloads(q) == [i \in 1..Len(q) |-> q[i].v]
\* A step of one of the paths that request shutdown other than the finally
\* block: the close callback, the listening thread's except.
ShutdownRequest == DgClose \/ DgCloseUnwinding \/ ListenExcept

\* C1: teardown is idempotent. finish(), __exit__ and the close of the
\* client connection each happen at most once in a session, whichever paths
\* request shutdown, and a shutdown request that finds the stop signal set
\* changes nothing of the session (it closes nothing, sends nothing, and the
\* handler is where it was).
C1_TeardownIdempotent ==
    /\ [](finishCalls <= 1 /\ exitCalls <= 1 /\ wsCloses <= 1)
    /\ [][(stop_event /\ ShutdownRequest) =>
            UNCHANGED <<stop_event, handlerv, cleanupv, hist, wsOpen>>]_vars

\* C1 witness: the close callback, the listening thread's failure and the
\* handler's cleanup all requested shutdown, and each close happened once.
C1_Witness ==
    /\ closeSeen
    /\ lpc = "failed"
    /\ pc = "returned"
    /\ finishCalls = 1 /\ exitCalls = 1 /\ wsCloses = 1

\* C2: once the stop signal is set, no further send is attempted. Stated
\* for the client connection, where every ws.send belongs to a callback or
\* an except block that starts and sends in one step, so that a send made
\* with the stop signal set is a new send and not one in flight (the loop
\* body's send_media of a frame read before the signal is left aside).
C2_NoSendOnceStopping ==
    [][stop_event => clientSent' = clientSent]_vars

\* C3: when the upstream connection closes (the close callback ran), the
\* stop signal is set, the read loop's next stop check leaves the loop, and
\* the session reaches Closed, whatever the client does.
C3_UpstreamDropLeadsToClosed ==
    /\ [](closeSeen => stop_event)
    /\ [][(stop_event /\ pc = "loop" /\ pc' # pc) => pc' = "finally"]_vars
    /\ closeSeen ~> Closed

\* C3 witness: the upstream closed while the handler was waiting for a
\* client frame, and the session is now closed with no frame ever read.
C3_Witness == closeSeen /\ Closed /\ nRecv = 0 /\ lpc = "exited"

\* C4: the payloads given to send_media are exactly the bytes frames read
\* from the client, in order, each once (the frame being dispatched is the
\* only one not yet forwarded).
C4_BinaryForwardedInOrder ==
    Payloads(MediaSent) \o (IF pc = "dispatch" /\ IsBytes(data) THEN <<data.v>> ELSE <<>>)
        = recvd

\* C4 witness: two different chunks were read and forwarded.
C4_Witness ==
    /\ Len(recvd) = 2
    /\ recvd[1] # recvd[2]
    /\ Payloads(MediaSent) = recvd

\* C5: no frame answering an upstream message is sent to the client before
\* the Ready notification of on_open.
C5_NoForwardBeforeReady ==
    \A i \in 1..Len(clientSent) :
        clientSent[i].msg > 0 => \E j \in 1..(i - 1) : clientSent[j].type = "Ready"

\* C6: the frames sent to the client that answer upstream messages are in
\* the order in which the upstream delivered those messages.
C6_UpstreamOrderPreserved ==
    \A i, j \in 1..Len(clientSent) :
        (i < j /\ clientSent[i].msg > 0 /\ clientSent[j].msg > 0)
            => clientSent[i].msg <= clientSent[j].msg

\* C6 witness: two upstream messages were both forwarded.
C6_Witness ==
    \E i, j \in 1..Len(clientSent) :
        /\ i < j
        /\ clientSent[i].msg > 0
        /\ clientSent[j].msg > clientSent[i].msg

\* C7: no upstream connection is attempted for a client that did not present
\* a valid session token.
C7_NoConnectWithoutToken == connects > 0 => token = "valid"

\* C8: whatever raises during cleanup, every cleanup step is attempted:
\* when the handler is done, finish() was called if a connection was
\* obtained and __exit__ if a context was, and once it has returned the
\* client connection was closed.
C8_CleanupStepsAllAttempted ==
    /\ pc \in {"done", "returned"} =>
          /\ finishCalls = (IF dg_connection THEN 1 ELSE 0)
          /\ exitCalls = (IF dg_context THEN 1 ELSE 0)
    /\ pc = "returned" => wsCloses = 1

\* C8 witness: finish() raised, and the context was exited and the client
\* connection closed all the same.
C8_Witness == finishRaised /\ pc = "returned" /\ exitCalls = 1 /\ wsCloses = 1

\* C9: when the handler's cleanup has completed, the listening thread has
\* returned.
C9_ListenerJoined ==
    pc \in {"done", "returned"} => lpc \in {"idle", "exited", "failed"}

\* C10: a Finalize or KeepAlive text frame is forwarded as the control
\* message of that type and as nothing else, and the loop goes on: the
\* handler is back at the loop's head with the stop signal as it was.
C10_ControlForwardedSessionContinues ==
    [][(pc = "dispatch" /\ pc' # pc /\ IsStr(data)
          /\ data.v \in {KeepAliveText, FinalizeText})
        => /\ upSent' = Append(upSent,
                 [kind |-> "control",
                  v |-> IF data.v = FinalizeText THEN "Finalize" ELSE "KeepAlive"])
           /\ pc' = "loop"
           /\ stop_event' = stop_event]_vars

\* C10 witness: a Finalize was forwarded as a control message and the chunk
\* that followed it was forwarded as media, the session still running.
C10_Witness ==
    /\ upSent = <<[kind |-> "control", v |-> "Finalize"], [kind |-> "media", v |-> "a"]>>
    /\ pc = "loop"
    /\ ~stop_event

\* The handler is in its receive loop: the session is Active.
Active == pc \in {"loop", "recv", "dispatch"}
\* The handler has left the loop for its except or finally block, or beyond.
TearingDown == pc \in {"except", "finally", "finish", "exit", "done", "returned"}
\* Teardown is over with the upstream connection closed: finish() and
\* __exit__ were both called on it.
TornDown == Closed /\ stop_event /\ finishCalls = 1 /\ exitCalls = 1
ConnectionError == format_error_response("CONNECTION_FAILED", 0)

\* C11: a CloseStream control message ends the session gracefully. The
\* iteration that handles it forwards nothing and leaves the loop for the
\* finally block; once the loop is left no client frame is read or forwarded
\* to the upstream any more; and the session goes on to complete teardown
\* with finish() and __exit__ called on the upstream connection.
C11_CloseStreamEndsSession ==
    /\ [][(pc = "dispatch" /\ data = Str(CloseStreamText) /\ pc' # pc)
            => (pc' = "finally" /\ upSent' = upSent)]_vars
    /\ [][TearingDown => UNCHANGED <<upSent, nRecv, recvd>>]_vars
    /\ (pc = "dispatch" /\ data = Str(CloseStreamText)) ~> TornDown

\* A session that CloseStream ended: one frame was read, nothing was
\* forwarded to either side, the handler did not go through its except
\* block and the listening thread is still listening with the stop signal
\* set by the finally block alone.
C11_Witness ==
    /\ TornDown /\ nRecv = 1 /\ recvd = <<>> /\ upSent = <<>> /\ clientSent = <<>>
    /\ lpc = "listening" /\ ~closeSeen

\* C12: a text frame that is not a known control message (not JSON, JSON
\* that is not an object, an object without a type, an unknown type) is
\* dropped: the iteration that handles it sends nothing to the upstream and
\* nothing to the client, leaves the stop signal as it was and goes back to
\* the head of the loop.
C12_MalformedTextDropped ==
    [][(pc = "dispatch" /\ pc' # pc /\ IsStr(data)
          /\ data.v \notin {KeepAliveText, FinalizeText, CloseStreamText})
        => /\ pc' = "loop"
           /\ UNCHANGED <<upSent, clientSent, stop_event>>]_vars

\* After a dropped text frame (one frame read, nothing forwarded) the
\* session has read a binary frame and is about to forward it.
C12_Witness ==
    /\ pc = "dispatch" /\ data = Bytes("a") /\ nRecv = 2 /\ upSent = <<>>
    /\ clientSent = <<>> /\ ~stop_event

\* C13: when the client connection is gone while the session is Active, the
\* handler reads no further frame, its next receive raises into the except
\* block, and the session goes on to complete teardown with the upstream
\* connection closed.
C13_ClientGoneLeadsToTeardown ==
    /\ [][~wsOpen => nRecv' = nRecv]_vars
    /\ [][(~wsOpen /\ pc = "recv" /\ pc' # pc) => pc' = "except"]_vars
    /\ (~wsOpen /\ Active) ~> TornDown

\* A session that the handler's except block ended although the upstream
\* was connected and never reported anything: the receive raised.
C13_Witness ==
    /\ TornDown /\ dg_connection /\ nEvents = 0 /\ lpc = "listening"
    /\ clientSent # <<>> /\ clientSent[Len(clientSent)] = ConnectionError

\* The frames sent to the client for the n-th upstream message.
FramesFor(n) == SelectSeq(clientSent, LAMBDA f : f.msg = n)

\* C14: a send to the client that fails in the listening thread moves the
\* session towards Closing. A message callback whose ws.send fails is in its
\* except block; when the send there fails too the exception leaves
\* start_listening; the thread's except block sets the stop signal; and
\* whenever the client is gone while the thread listens, handles or
\* unwinds, the stop signal is eventually set and teardown completes.
C14_SendFailureLeadsToTeardown ==
    /\ [][(~wsOpen /\ lpc = "listening" /\ nEvents' # nEvents
             /\ clientSent' # clientSent
             /\ clientSent'[Len(clientSent')].msg > 0) => lpc' = "excepting"]_vars
    /\ [][(~wsOpen /\ lpc = "excepting" /\ lpc' # lpc) => lpc' = "raising"]_vars
    /\ [][(lpc = "raising" /\ lpc' # lpc) => stop_event']_vars
    /\ (~wsOpen /\ lpc \in {"listening", "excepting", "raising"}) ~> TornDown

\* The message callback's send of a Results frame failed; the handler's
\* receive raised, its except block sent its envelope and teardown ran
\* while the callback was between its two sends; then the callback's Error
\* envelope failed too and the thread ended in its except block, without a
\* CLOSE event.
C14_Witness ==
    /\ TornDown /\ lpc = "failed" /\ ~closeSeen
    /\ clientSent = <<WsCall("Results", 1, "hi"), ConnectionError,
                      format_error_response("TRANSCRIPTION_FAILED", 1)>>

\* C15: after the upstream reports an error while the session is Active
\* (the error callback has sent its envelope and the handler is still in
\* its loop), the stop signal is eventually set and the session reaches
\* Closed.
C15_UpstreamErrorLeadsToClosed ==
    (Active /\ \E i \in 1..Len(clientSent) : clientSent[i] = ConnectionError)
        ~> (stop_event /\ Closed)

\* C16: when the upstream connection cannot be established the client is
\* told with an Error envelope, finish() is not called on the connection
\* that was never obtained, the listening thread is never started, and the
\* context manager is exited only when connect() had returned one.
C16_ConnectFailureNotifiedAndCleaned ==
    (connects = 1 /\ ~dg_connection) =>
        /\ pc \in {"start", "except"} \/ clientSent = <<ConnectionError>>
        /\ finishCalls = 0 /\ lpc = "idle"
        /\ pc \in {"done", "returned"} => exitCalls = (IF dg_context THEN 1 ELSE 0)

\* __enter__ raised on the context connect() returned: the client was told,
\* the context was exited, finish() was not called, the handler returned.
C16_Witness ==
    /\ connects = 1 /\ ~dg_connection /\ dg_context /\ pc = "returned"
    /\ clientSent = <<ConnectionError>> /\ finishCalls = 0 /\ exitCalls = 1

\* The session ended because the upstream closed: the handler read no
\* frame and did not go through its except block, so it left the loop on
\* the stop signal that the CLOSE event of the ended listening thread set.
UpstreamDropEnded ==
    /\ Closed /\ lpc = "exited" /\ closeSeen /\ nRecv = 0
    /\ \A i \in 1..Len(clientSent) : clientSent[i].type # "Error"

\* C17: a session that ends because the upstream dropped closes the client
\* connection with the server-error status (1011), not with the normal
\* closure.
C17_UpstreamDropClosesWithServerError ==
    UpstreamDropEnded => closeCode = 1011

\* C18: sessions share no upstream connection. The frames of two different
\* clients are never sent on one and the same upstream connection: all the
\* audio sent on the Socket.IO server's connection comes from one client.
C18_NoUpstreamSharedByClients ==
    \A i, j \in 1..Len(sioSent) : sioSent[i].sid = sioSent[j].sid

\* C19: one result, one frame. In a session in which the client sent binary
\* audio, the upstream delivered exactly one event, a result with a
\* transcript, and the client connection is still open, the client has been
\* sent exactly one frame, at every point of the session.
C19_OneResultOneFrame ==
    (/\ wsOpen /\ nEvents = 1 /\ recvd # <<>>
     /\ \E i \in 1..Len(clientSent) : clientSent[i] = WsCall("Results", 1, "hi"))
        => Len(clientSent) = 1

\* The relay's part of C20 (src/app.py). A result with an empty transcript
\* produces no frame; no Results frame carries an empty text; and an
\* upstream message has at most two frames sent for it, two only when the
\* client is gone (the second is the Error envelope after the first send
\* failed, and it fails too): at most one is sent successfully.
RelayOnlyNonEmptySurfaced ==
    /\ \A i \in 1..Len(clientSent) :
            clientSent[i].type = "Results" => clientSent[i].text # ""
    /\ \A n \in 1..nEvents :
            /\ Len(FramesFor(n)) <= 2
            /\ Len(FramesFor(n)) = 2 => ~wsOpen
RelayEmptyResultSendsNothing ==
    [][\A m \in UpstreamMessages :
            (on_message(m) /\ m.kind = "Results" /\ m.text = "")
                => clientSent' = clientSent]_vars

\* The transcription_update events emitted for the n-th Transcript event.
EmitsFor(n) == SelectSeq(sioEmitted, LAMBDA e : e.msg = n)

\* The Socket.IO variant's part of C20: no transcription_update carries an
\* empty transcript.
SioOnlyNonEmptyEmitted ==
    \A i \in 1..Len(sioEmitted) : sioEmitted[i].transcription # ""

\* The Socket.IO variant's part of C20: one Transcript event, at most one
\* transcription_update.
SioAtMostOneEmit ==
    \A n \in 1..nTranscripts : Len(EmitsFor(n)) <= 1

\* The test's part of C20: its event is set for non-empty transcripts only.
TestOnlyNonEmptySetsEvent ==
    \A t \in Transcripts : test_on_message(t) => Len(t) > 0

\* C20: a transcript is surfaced only when its text is not empty, and once.
\* On each of the three surfaces (the relay's Results frame, the Socket.IO
\* variant's transcription_update, the test's event) a result with an empty
\* transcript produces nothing, and every upstream message produces at most
\* one frame sent to the client successfully.
C20_OnlyNonEmptyTranscriptsSurfaced ==
    /\ RelayOnlyNonEmptySurfaced
    /\ SioOnlyNonEmptyEmitted
    /\ SioAtMostOneEmit
    /\ TestOnlyNonEmptySetsEvent

\* C21: a send_media that raises ends the client-to-upstream pump: the loop
\* is left for the finally block, no client frame is read or forwarded from
\* then on, and teardown completes. A send_control (KeepAlive, Finalize) that
\* raises is swallowed: the stop signal is left alone, the handler is back
\* at the head of the loop and, unless the stop signal is set, goes on to
\* the next ws.receive.
C21_MediaFailureFatalControlFailureSwallowed ==
    /\ [][(pc = "dispatch" /\ IsBytes(data) /\ sendRaised') => pc' = "finally"]_vars
    /\ [][TearingDown => (nRecv' = nRecv /\ upSent' = upSent)]_vars
    /\ (pc = "finally" /\ sendRaised) ~> TornDown
    /\ [][(pc = "dispatch" /\ IsStr(data) /\ sendRaised')
            => (pc' = "loop" /\ stop_event' = stop_event)]_vars
    /\ [][(pc = "loop" /\ sendRaised /\ ~stop_event /\ pc' # pc) => pc' = "recv"]_vars

\* A Finalize whose send_control raised was followed by a chunk whose
\* send_media raised: the first left the session running, the second sent
\* the handler to its finally block.
C21_Witness ==
    /\ upSent = <<[kind |-> "control", v |-> "Finalize"], [kind |-> "media", v |-> "a"]>>
    /\ pc = "finally" /\ sendRaised /\ nRecv = 2 /\ ~stop_event

\* The background tasks that are blocked inside transcription_event.wait()
\* and have not been notified.
Waiting == {i \in 1..Len(tasks) : tasks[i] = "wait"}

\* C22: at most one transcription loop at a time. Whatever the order of the
\* toggle_transcription events and of the steps of the background tasks,
\* there are never two tasks waiting on the shared transcription event.
C22_AtMostOneLoopWaiting == Cardinality(Waiting) <= 1

\* C23: no audio on a finished connection. Every send that
\* handle_audio_stream made on the shared connection was made before
\* start_transcription_loop called finish() on it.
C23_NoSendAfterFinish ==
    \A i \in 1..Len(sioSent) : ~sioSent[i].finished

====
